---- MODULE Spec2Model ----
(***************************************************************************)
(* Incremental archive updater of j-quants-analysis (update_jqdb.py):      *)
(* FileRepository, atomic_save and update_file_for_code, modelled over a   *)
(* small filesystem of partition files for one bucket directory; main and  *)
(* update_topix_data, modelled as the steps of one run of the program.     *)
(*                                                                         *)
(* A date string "YYYY-MM-DD" is the triple <<y, m, d>>; the string        *)
(* "YYYYMMDD" of file names and of the fetch window is the integer         *)
(* y*10000 + m*100 + d.  Comparison of zero-padded strings of equal width  *)
(* is the order of these values.                                           *)
(***************************************************************************)
EXTENDS Integers, Sequences, FiniteSets, TLC

VARIABLES
    disk,        \* the bucket directory: path -> table, for the files that exist
    dir_exists,  \* os.path.exists(sector_dir)
    file_map,    \* FileRepository.file_map: code -> list of paths
    last,        \* the last call of update_file_for_code: the disk and index it
                 \* began with, its arguments, outcome and I/O log
    prev,        \* the call before it
    runs,        \* number of calls made so far
    repo_op,     \* the last FileRepository method called on its own
    run,         \* main: its position, arguments, listing and what it did
    fy_calls     \* the last two calls of get_current_fy made on their own

vars == <<disk, dir_exists, file_map, last, prev, runs, repo_op, run, fy_calls>>

----------------------------------------------------------------------------
(* Bounds of the model *)

MaxRuns == 2     \* calls of update_file_for_code in one behaviour
MaxFetch == 2    \* rows in one fetch response

Codes == {"72030", "13010"}

\* Dates the fetch client may return rows for.
FetchDates == { <<2025, 3, 28>>, <<2025, 3, 31>>, <<2025, 4, 1>> }

\* latest_biz_date values ("YYYYMMDD").
Targets == { 20250331, 20250401 }

----------------------------------------------------------------------------
(* Calendar: datetime.strptime, strftime, timedelta(days=1) *)

IsLeap(y) == (y % 4 = 0 /\ y % 100 # 0) \/ y % 400 = 0

DaysInMonth(y, m) ==
    IF m = 2 THEN (IF IsLeap(y) THEN 29 ELSE 28)
    ELSE IF m \in {4, 6, 9, 11} THEN 30 ELSE 31

\* str.replace("-", "") on "YYYY-MM-DD", and strftime("%Y%m%d")
Plain(d) == d[1] * 10000 + d[2] * 100 + d[3]

\* The fields strptime(s, "%Y%m%d") reads from an 8-digit string.
Fields(n) == << n \div 10000, (n \div 100) % 100, n % 100 >>

\* strptime raises ValueError unless the fields name a calendar day.
ValidDate(d) ==
    /\ d[1] >= 1
    /\ d[2] \in 1..12
    /\ d[3] >= 1
    /\ d[3] <= DaysInMonth(d[1], d[2])

EightDigits(n) == n >= 10000000 /\ n <= 99999999

\* A suffix of 8 characters that str.isdigit() accepts and int() rejects:
\* digits that are not decimal, as in "2025033\u00b9" (superscript one).
NonDecimal == -1

\* dt + datetime.timedelta(days=1)
AddDay(d) ==
    IF d[3] < DaysInMonth(d[1], d[2]) THEN << d[1], d[2], d[3] + 1 >>
    ELSE IF d[2] < 12 THEN << d[1], d[2] + 1, 1 >>
    ELSE << d[1] + 1, 1, 1 >>

\* "<" on two "YYYY-MM-DD" strings: lexicographic on the zero-padded fields.
DashLess(a, b) ==
    \/ a[1] < b[1]
    \/ a[1] = b[1] /\ a[2] < b[2]
    \/ a[1] = b[1] /\ a[2] = b[2] /\ a[3] < b[3]

get_current_fy_from_march(d) == IF d[2] >= 3 THEN d[1] ELSE d[1] - 1

get_current_fy(d) == IF d[2] >= 4 THEN d[1] ELSE d[1] - 1

----------------------------------------------------------------------------
(* Tables: a DataFrame is a sequence of rows [Date, v]; v stands for the   *)
(* price columns (0: on disk at the start, 1: fetched).                    *)

Row(d, v) == [Date |-> d, v |-> v]

Dates(t) == { t[i].Date : i \in 1..Len(t) }

RECURSIVE Insert(_, _)
Insert(sorted, r) ==
    IF sorted = << >> THEN << r >>
    ELSE IF DashLess(r.Date, Head(sorted).Date) THEN << r >> \o sorted
    ELSE << Head(sorted) >> \o Insert(Tail(sorted), r)

RECURSIVE sort_values(_)
\* df.sort_values("Date"): ascending, rows of equal Date in their order
sort_values(t) ==
    IF t = << >> THEN << >>
    ELSE Insert(sort_values(SubSeq(t, 1, Len(t) - 1)), t[Len(t)])

RECURSIVE SelectIdx(_, _, _)
SelectIdx(t, keep, i) ==
    IF i > Len(t) THEN << >>
    ELSE (IF i \in keep THEN << t[i] >> ELSE << >>) \o SelectIdx(t, keep, i + 1)

\* Variant: keep="first", the older row wins.
drop_duplicates_first(t) ==
    SelectIdx(t, { i \in 1..Len(t) : \A j \in 1..(i - 1) : t[j].Date # t[i].Date }, 1)

\* df.drop_duplicates(subset=["Date"], keep="last")
drop_duplicates(t) ==
    SelectIdx(t, { i \in 1..Len(t) : \A j \in (i + 1)..Len(t) : t[j].Date # t[i].Date }, 1)

\* Variant: "<=" for "<", the row of April 1 stays with the old year.
RowsUpTo(t, bound) == SelectIdx(t, { i \in 1..Len(t) : ~DashLess(bound, t[i].Date) }, 1)

\* df[df["Date"] < bound] and df[df["Date"] >= bound]
RowsBefore(t, bound) == SelectIdx(t, { i \in 1..Len(t) : DashLess(t[i].Date, bound) }, 1)
RowsFrom(t, bound) == SelectIdx(t, { i \in 1..Len(t) : ~DashLess(t[i].Date, bound) }, 1)

\* Variant: the concatenation is dropped, the old table is kept as it is.
MergeOldOnly(old, new) == old

\* pd.concat([old, new]).drop_duplicates(subset=["Date"], keep="last").sort_values("Date")
Merge(old, new) == sort_values(drop_duplicates(old \o new))

\* df["Date"].max() of a non-empty table
MaxDate(t) == CHOOSE d \in Dates(t) : \A e \in Dates(t) : ~DashLess(d, e)

IsSorted(t) == \A i \in 1..(Len(t) - 1) : ~DashLess(t[i + 1].Date, t[i].Date)
UniqueDates(t) == \A i, j \in 1..Len(t) : t[i].Date = t[j].Date => i = j

----------------------------------------------------------------------------
(* File names: {code}_{fy}fy_{YYYYMMDD}.csv (live), {code}_{fy}fy.csv      *)
(* (archived, sfx = 0), and path + ".tmp" (tmp = TRUE).                    *)

Path(code, fy, sfx, tmp) == [code |-> code, fy |-> fy, sfx |-> sfx, tmp |-> tmp]

NoPath == Path("", 0, 0, FALSE)    \* None

\* Stands for "the call raised ValueError" where a path is returned.
ValueErrorPath == Path("ValueError", 0, 0, FALSE)

ArchiveName(code, fy) == Path(code, fy, 0, FALSE)
LiveName(code, fy, plain) == Path(code, fy, plain, FALSE)
TempPath(p) == [p EXCEPT !.tmp = TRUE]

IsCsvAnywhere(p) == TRUE           \* ".csv" in filename

IsCsv(p) == ~p.tmp                 \* filename.endswith(".csv")

\* A name without an underscore, such as 72030.csv, has a first segment only.
NoSegment == -1
PlainName(code) == Path(code, NoSegment, 0, FALSE)
HasUnderscore(p) == p.fy # NoSegment      \* len(filename.split("_")) >= 2
IsLive(p) == IsCsv(p) /\ p.sfx # 0
IsArchived(p) == IsCsv(p) /\ p.sfx = 0

Exists(fs, p) == p \in DOMAIN fs

WriteFile(fs, p, t) == [q \in DOMAIN fs \cup {p} |-> IF q = p THEN t ELSE fs[q]]
DeleteFile(fs, p) == [q \in DOMAIN fs \ {p} |-> fs[q]]

\* What a path holds: its table, or "absent".
Content(fs, p) == IF Exists(fs, p) THEN [present |-> TRUE, table |-> fs[p]]
                  ELSE [present |-> FALSE, table |-> << >>]

CsvFiles(fs, code) == { p \in DOMAIN fs : IsCsv(p) /\ p.code = code }

----------------------------------------------------------------------------
(* FileRepository *)

RECURSIVE SeqsOf(_)
\* every order in which os.walk may list a set of files
SeqsOf(S) ==
    IF S = {} THEN { << >> }
    ELSE UNION { { << p >> \o s : s \in SeqsOf(S \ {p}) } : p \in S }

\* _scan_files: the indexes a scan can build: every *.csv with an underscore,
\* grouped by its first segment, in any listing order
\* file_map has a key for a code only once a file of that code was seen.
ScanFiles(fs) ==
    LET seen == { p \in DOMAIN fs : IsCsv(p) /\ HasUnderscore(p) }
        found == { p.code : p \in seen }
        of(c) == { p \in seen : p.code = c }
    IN { fm \in [found -> UNION { SeqsOf(of(c)) : c \in found }] :
           \A c \in found : fm[c] \in SeqsOf(of(c)) }

\* self.file_map.get(code), with None as the empty list
Files(fm, code) == IF code \in DOMAIN fm THEN fm[code] ELSE << >>

\* int(last_part) raises ValueError: isdigit() and len == 8 hold, but the
\* digits are not decimal.
KeyRaises(p) == p.sfx = NonDecimal

sort_key(p) == IF EightDigits(p.sfx) THEN p.sfx ELSE 0

\* sorted(files, key=sort_key, reverse=True)[0]: the first of the files of
\* largest key (sorted is stable, also with reverse=True); sorted calls the
\* key function on every file.
get_latest_file(fm, code) ==
    LET files == Files(fm, code)
        best == { i \in 1..Len(files) :
                    \A j \in 1..Len(files) : sort_key(files[j]) <= sort_key(files[i]) }
    IN IF files = << >> THEN NoPath
       ELSE IF \E i \in 1..Len(files) : KeyRaises(files[i]) THEN ValueErrorPath
       ELSE files[CHOOSE i \in best : \A j \in best : i <= j]

InList(s, p) == \E i \in 1..Len(s) : s[i] = p

\* Variant: the path is appended without looking for it in the list.
add_file_always(fm, code, p) ==
    LET fm1 == IF code \in DOMAIN fm THEN fm ELSE fm @@ (code :> << >>)
    IN [fm1 EXCEPT ![code] = Append(@, p)]

add_file(fm, code, p) ==
    LET fm1 == IF code \in DOMAIN fm THEN fm ELSE fm @@ (code :> << >>)
    IN IF InList(fm1[code], p) THEN fm1 ELSE [fm1 EXCEPT ![code] = Append(@, p)]

\* list.remove: drops the first occurrence
remove_file(fm, code, p) ==
    IF code \notin DOMAIN fm THEN fm
    ELSE IF ~InList(fm[code], p) THEN fm
    ELSE LET k == CHOOSE i \in 1..Len(fm[code]) :
                    fm[code][i] = p /\ \A j \in 1..(i - 1) : fm[code][j] # p
         IN [fm EXCEPT ![code] = SubSeq(@, 1, k - 1) \o SubSeq(@, k + 1, Len(@))]

Indexed(fm, code) == { Files(fm, code)[i] : i \in 1..Len(Files(fm, code)) }

----------------------------------------------------------------------------
(* I/O log of a call: one event per sleep, fetch, file operation and       *)
(* index mutation, in program order; ok = FALSE when the operation raised. *)

Ev(op, p, ok) == [op |-> op, path |-> p, ok |-> ok]

\* File operations that may raise during a call: in the first and the second
\* atomic_save the write of the temporary file or the replace; the os.remove
\* of the old partition; the os.remove of the temporary file in the cleanup.
FaultPoints == { "write1", "replace1", "remove", "write2", "replace2", "cleanup" }

\* The sets of failing operations that differ in effect: a save fails at one
\* place; nothing runs after a failed save; the cleanup runs only after one.
\* saves: the number of atomic_save calls on the path taken.
FaultSets(saves) ==
    { F \in SUBSET FaultPoints :
        /\ ~({"write1", "replace1"} \subseteq F)
        /\ ~({"write2", "replace2"} \subseteq F)
        /\ F \cap {"write1", "replace1"} # {} => F \cap {"remove", "write2", "replace2"} = {}
        /\ "cleanup" \in F => F \cap {"write1", "replace1", "write2", "replace2"} # {}
        /\ saves < 2 => F \cap {"write2", "replace2"} = {} }

----------------------------------------------------------------------------
(* atomic_save *)

\* Variant: the except branch re-raises without removing the temporary file.
SaveCleanupNone(fs, tmp, cfail, log) == [disk |-> fs, raised |-> TRUE, log |-> log]

\* The except branch: remove the temporary file if it exists (an OSError of
\* the removal is swallowed), then re-raise.
SaveCleanup(fs, tmp, cfail, log) ==
    IF ~Exists(fs, tmp) THEN [disk |-> fs, raised |-> TRUE, log |-> log]
    ELSE IF cfail THEN [disk |-> fs, raised |-> TRUE,
                        log |-> Append(log, Ev("remove_tmp", tmp, FALSE))]
    ELSE [disk |-> DeleteFile(fs, tmp), raised |-> TRUE,
          log |-> Append(log, Ev("remove_tmp", tmp, TRUE))]

\* wfail: df.to_csv(temp_path) raises after writing part of the file;
\* rfail: os.replace / os.rename raises; cfail: os.remove(temp_path) raises.
atomic_save(fs, df, path, wfail, rfail, cfail) ==
    LET tmp == TempPath(path)
        partial == WriteFile(fs, tmp, SubSeq(df, 1, Len(df) - 1))
        written == WriteFile(fs, tmp, df)
    IN IF wfail THEN SaveCleanup(partial, tmp, cfail, << Ev("write_tmp", tmp, FALSE) >>)
       ELSE IF rfail
            THEN SaveCleanup(written, tmp, cfail,
                             << Ev("write_tmp", tmp, TRUE), Ev("replace", path, FALSE) >>)
       ELSE [disk |-> DeleteFile(WriteFile(written, path, df), tmp),
             raised |-> FALSE,
             log |-> << Ev("write_tmp", tmp, TRUE), Ev("replace", path, TRUE) >>]

----------------------------------------------------------------------------
(* update_file_for_code: the statements inside the try block act on a      *)
(* record st = [disk, fm, log, saves, exc]; once exc is set (an exception  *)
(* is propagating to the except clause) the remaining statements are       *)
(* skipped.                                                                *)

\* atomic_save(df, path) at st; saves records what the call did to path.
StSave(st, df, path, wfail, rfail, cfail) ==
    IF st.exc THEN st
    ELSE LET r == atomic_save(st.disk, df, path, wfail, rfail, cfail)
         IN [st EXCEPT !.disk = r.disk,
                       !.log = @ \o r.log,
                       !.exc = r.raised,
                       !.saves = Append(@, [path |-> path,
                                            df |-> df,
                                            before |-> Content(st.disk, path),
                                            after |-> Content(r.disk, path),
                                            tmp_left |-> Exists(r.disk, TempPath(path)),
                                            raised |-> r.raised])]

\* Variant: the file is deleted and the index entry is forgotten.
StRemoveOldDiskOnly(st, code, p, fail) ==
    IF st.exc THEN st
    ELSE IF fail \/ ~Exists(st.disk, p)
         THEN [st EXCEPT !.log = Append(@, Ev("remove", p, FALSE))]
    ELSE [st EXCEPT !.disk = DeleteFile(@, p),
                    !.log = Append(@, Ev("remove", p, TRUE))]

\* Variant: file_repo.remove_file is called before os.remove, so the index
\* entry goes also when the delete fails.
StRemoveOldIndexFirst(st, code, p, fail) ==
    IF st.exc THEN st
    ELSE IF fail \/ ~Exists(st.disk, p)
         THEN [st EXCEPT !.fm = remove_file(@, code, p),
                         !.log = @ \o << Ev("index_remove", p, TRUE), Ev("remove", p, FALSE) >>]
    ELSE [st EXCEPT !.disk = DeleteFile(@, p),
                    !.fm = remove_file(@, code, p),
                    !.log = @ \o << Ev("index_remove", p, TRUE), Ev("remove", p, TRUE) >>]

\* try: os.remove(p); file_repo.remove_file(code, p)  except OSError: warning
StRemoveOld(st, code, p, fail) ==
    IF st.exc THEN st
    ELSE IF fail \/ ~Exists(st.disk, p)
         THEN [st EXCEPT !.log = Append(@, Ev("remove", p, FALSE))]
    ELSE [st EXCEPT !.disk = DeleteFile(@, p),
                    !.fm = remove_file(@, code, p),
                    !.log = @ \o << Ev("remove", p, TRUE), Ev("index_remove", p, TRUE) >>]

\* file_repo.add_file(code, p)
StAdd(st, code, p) ==
    IF st.exc THEN st
    ELSE [st EXCEPT !.fm = add_file(@, code, p),
                    !.log = Append(@, Ev("index_add", p, TRUE))]

\* Variant: iloc[0], the earliest fetched row names the file.
EarliestRow(df_new) == df_new[1]

\* df_new.iloc[-1] of the sorted response
LatestRow(df_new) == df_new[Len(df_new)]

\* Variant: the fiscal year of the new data is taken as the file's.
CurrentFileFyNew(cur, new_fy) == new_fy

\* int(current_fy_str), or new_fy on ValueError (fy = 0: a segment that is
\* not a number)
CurrentFileFy(cur, new_fy) == IF cur.fy = 0 THEN new_fy ELSE cur.fy

\* The branch new_fy > current_file_fy.
Rollover(st, code, cur, df_old, df_new, new_fy, current_file_fy, F) ==
    LET new_fy_start_date == << new_fy, 4, 1 >>
        df_curr_fy_new_data == RowsBefore(df_new, new_fy_start_date)
        df_next_fy_new_data == RowsFrom(df_new, new_fy_start_date)
        df_old_updated == IF df_curr_fy_new_data # << >>
                          THEN Merge(df_old, df_curr_fy_new_data)
                          ELSE df_old
        archive_path == ArchiveName(code, current_file_fy)
        new_file_path == LiveName(code, new_fy, Plain(LatestRow(df_new).Date))
        s1 == StSave(st, df_old_updated, archive_path,
                     "write1" \in F, "replace1" \in F, "cleanup" \in F)
        s2 == IF cur # archive_path THEN StRemoveOld(s1, code, cur, "remove" \in F) ELSE s1
        s3 == StAdd(s2, code, archive_path)
        s4 == StSave(s3, df_next_fy_new_data, new_file_path,
                     "write2" \in F, "replace2" \in F, "cleanup" \in F)
    IN IF df_next_fy_new_data # << >> THEN StAdd(s4, code, new_file_path) ELSE s3

\* The else branch: update within the fiscal year.
NoRollover(st, code, cur, df_old, df_new, current_file_fy, F) ==
    LET df_combined == Merge(df_old, df_new)
        new_file_path == LiveName(code, current_file_fy, Plain(LatestRow(df_new).Date))
        s1 == StSave(st, df_combined, new_file_path,
                     "write1" \in F, "replace1" \in F, "cleanup" \in F)
        s2 == IF new_file_path # cur THEN StRemoveOld(s1, code, cur, "remove" \in F) ELSE s1
    IN StAdd(s2, code, new_file_path)

\* What a call returns to main, and what it leaves behind.
Result(fs, fm, outcome, raised, log, saves, from, resp) ==
    [disk |-> fs, fm |-> fm, outcome |-> outcome, raised |-> raised,
     log |-> log, saves |-> saves, from |-> from, resp |-> resp]

\* Variant: without a partition an old date is assumed and the data is
\* fetched from there (the alternative the comment of lines 268-271 names).
LastUpdatedEpoch(fs, cur) ==
    IF cur = NoPath THEN 20250327
    ELSE IF cur.sfx # 0 THEN cur.sfx
    ELSE IF Exists(fs, cur) /\ fs[cur] # << >> THEN Plain(MaxDate(fs[cur]))
    ELSE 0

\* last_updated_date_str: the date suffix of the file name, or for a name
\* without one the largest Date in the file; 0 stands for None or "".
LastUpdated(fs, cur) ==
    IF cur = NoPath THEN 0
    ELSE IF cur.sfx # 0 THEN cur.sfx
    ELSE IF Exists(fs, cur) /\ fs[cur] # << >> THEN Plain(MaxDate(fs[cur]))
    ELSE 0

\* Variant: ">" for ">=", a partition that ends on the target date is not
\* fresh.
IsFreshStrict(last_updated, target) == last_updated > target

\* last_updated_date_str >= latest_biz_date
IsFresh(last_updated, target) == last_updated >= target

\* Lines 231-283: the latest partition, its last date, the fetch window.
\* kind "go": a fetch from `from` is due.
Locate(fs, fm, dirOK, code, target) ==
    LET cur == get_latest_file(fm, code)
        readArchive == cur # NoPath /\ cur.sfx = 0
        last_updated == LastUpdated(fs, cur)
        log == IF readArchive THEN << Ev("read", cur, Exists(fs, cur)) >> ELSE << >>
        from == Plain(AddDay(Fields(last_updated)))
        out(kind, outcome) == [kind |-> kind, outcome |-> outcome, cur |-> cur,
                               log |-> log, from |-> from, to |-> target]
    IN IF ~dirOK THEN [out("ret", "DIR_NOT_FOUND") EXCEPT !.log = << >>]
       ELSE IF cur = ValueErrorPath THEN out("raise", "ValueError")
       ELSE IF last_updated = 0 THEN out("ret", "FILE_NOT_FOUND")
       ELSE IF IsFresh(last_updated, target) THEN out("ret", "ALREADY_LATEST")
       ELSE IF ~ValidDate(Fields(last_updated)) THEN out("raise", "ValueError")
       ELSE IF from > target THEN out("ret", "DATE_CALC_ERROR")
       ELSE out("go", "")

\* new_fy: the fiscal year of the latest fetched row
NewFy(resp) == get_current_fy(LatestRow(sort_values(resp.rows)).Date)

\* new_fy > current_file_fy
IsRollover(cur, resp) == NewFy(resp) > CurrentFileFy(cur, NewFy(resp))

\* Lines 316-434 for a non-empty response: sort, load, classify, commit.
Commit(fs, fm, code, loc, resp, F) ==
    LET cur == loc.cur
        log0 == loc.log \o << Ev("sleep", NoPath, TRUE), Ev("fetch", NoPath, TRUE),
                              Ev("read", cur, Exists(fs, cur)) >>
        df_new == sort_values(resp.rows)
        new_fy == NewFy(resp)
        current_file_fy == CurrentFileFy(cur, new_fy)
        st == [disk |-> fs, fm |-> fm, log |-> log0, saves |-> << >>, exc |-> FALSE]
        end == IF new_fy > current_file_fy
               THEN Rollover(st, code, cur, fs[cur], df_new, new_fy, current_file_fy, F)
               ELSE NoRollover(st, code, cur, fs[cur], df_new, current_file_fy, F)
    IN IF ~Exists(fs, cur)
       THEN Result(fs, fm, "ERROR", FALSE, log0, << >>, loc.from, resp)
       ELSE Result(end.disk, end.fm, IF end.exc THEN "ERROR" ELSE "UPDATED", FALSE,
                   end.log, end.saves, loc.from, resp)

\* A fetch response: the client raises, or returns a table (maybe empty).
NoResp == [ok |-> TRUE, rows |-> << >>]

RECURSIVE RowSeqs(_)
RowSeqs(n) ==
    IF n = 0 THEN { << >> }
    ELSE LET shorter == RowSeqs(n - 1)
         IN shorter \cup { Append(s, Row(d, 1)) : s \in shorter, d \in FetchDates }

Responses == { [ok |-> FALSE, rows |-> << >>] } \cup
             { [ok |-> TRUE, rows |-> t] : t \in RowSeqs(MaxFetch) }

\* Every way a call of update_file_for_code can end, over the responses of
\* the fetch client and the file operations that fail.
update_file_for_code(fs, fm, dirOK, code, target, test_mode) ==
    LET loc == Locate(fs, fm, dirOK, code, target)
        fetched(resp) ==
            LET log == loc.log \o << Ev("sleep", NoPath, TRUE), Ev("fetch", NoPath, resp.ok) >>
            IN IF ~resp.ok THEN { Result(fs, fm, "ERROR", FALSE, log, << >>, loc.from, resp) }
               ELSE IF resp.rows = << >>
                    THEN { Result(fs, fm, "NO_NEW_DATA", FALSE, log, << >>, loc.from, resp) }
               ELSE { Commit(fs, fm, code, loc, resp, F) :
                        F \in FaultSets(IF IsRollover(loc.cur, resp) THEN 2 ELSE 1) }
        ends == IF loc.kind = "ret"
                THEN { Result(fs, fm, loc.outcome, FALSE, loc.log, << >>, 0, NoResp) }
                ELSE IF loc.kind = "raise"
                     THEN { Result(fs, fm, loc.outcome, TRUE, loc.log, << >>, 0, NoResp) }
                ELSE IF test_mode
                     THEN { Result(fs, fm, "UPDATED", FALSE, loc.log, << >>, 0, NoResp) }
                ELSE UNION { fetched(resp) : resp \in Responses }
    \* from_date and to_date as passed to get_daily_quotes (0: no fetch)
    IN { r @@ [to |-> IF r.from = 0 THEN 0 ELSE loc.to] : r \in ends }

----------------------------------------------------------------------------
(* Initial filesystems: tables as build_jqdb leaves them (sorted, one row  *)
(* per date); the index is the scan of the disk.                           *)

OldRows == << Row(<<2025, 3, 27>>, 0), Row(<<2025, 3, 28>>, 0) >>
Fy2023Rows == << Row(<<2024, 3, 29>>, 0) >>

FileSystem(files) == [p \in { f[1] : f \in files } |->
                        (CHOOSE f \in files : f[1] = p)[2]]

InitDisks ==
    { FileSystem({ << LiveName("72030", 2024, 20250328), OldRows >> }),
      FileSystem({ << ArchiveName("72030", 2023), Fy2023Rows >>,
                   << LiveName("72030", 2024, 20250328), OldRows >> }),
      FileSystem({ << ArchiveName("72030", 2024), OldRows >> }),
      FileSystem({ << LiveName("72030", 2023, 20240329), Fy2023Rows >> }),
      FileSystem({ << LiveName("72030", 2024, 20250230), OldRows >> }),
      FileSystem({ << LiveName("72030", 2024, NonDecimal), OldRows >> }),
      FileSystem({ }) }

NoCall == [called |-> FALSE, disk0 |-> FileSystem({ }), map0 |-> [c \in Codes |-> << >>],
           code |-> "", target |-> 0, test |-> FALSE,
           outcome |-> "", raised |-> FALSE, log |-> << >>, saves |-> << >>,
           from |-> 0, to |-> 0, resp |-> NoResp]

\* No FileRepository method was called on its own; main is not running.
NoOp == [name |-> "", code |-> "", path |-> NoPath, map0 |-> << >>, result |-> NoPath]
NoRun == [pc |-> "off"]

Init ==
    /\ dir_exists \in BOOLEAN
    /\ disk \in IF dir_exists THEN InitDisks ELSE { FileSystem({ }) }
    /\ file_map \in ScanFiles(disk)
    /\ last = NoCall
    /\ prev = NoCall
    /\ runs = 0
    /\ repo_op = NoOp
    /\ fy_calls = << >>
    /\ run = NoRun

\* main calls update_file_for_code for an instrument.
UpdateFileForCode ==
    /\ runs < MaxRuns
    /\ \E code \in Codes, target \in Targets, test_mode \in BOOLEAN :
         \E r \in update_file_for_code(disk, file_map, dir_exists, code, target, test_mode) :
            /\ disk' = r.disk
            /\ file_map' = r.fm
            /\ last' = [called |-> TRUE, disk0 |-> disk, map0 |-> file_map,
                        code |-> code, target |-> target, test |-> test_mode,
                        outcome |-> r.outcome, raised |-> r.raised,
                        log |-> r.log, saves |-> r.saves, from |-> r.from, to |-> r.to,
                        resp |-> r.resp]
            /\ prev' = last
            /\ runs' = runs + 1
            /\ UNCHANGED <<dir_exists, repo_op, run, fy_calls>>

Next == UpdateFileForCode

Spec == Init /\ [][Next]_vars

----------------------------------------------------------------------------
(* The FileRepository on its own: built by a scan of a tree, then any      *)
(* sequence of add_file, remove_file and get_latest_file calls.            *)

\* A code no file on disk has.
RepoCodes == Codes \cup {"99990"}

\* File names: archived, two dated ones, a 7-digit suffix, a suffix of
\* non-decimal digits; a second instrument with archived partitions only;
\* one file of a third instrument.
RepoPaths ==
    { ArchiveName("72030", 2024),
      LiveName("72030", 2024, 20250115),
      LiveName("72030", 2024, 20250320),
      LiveName("72030", 2024, 2025032),
      LiveName("72030", 2024, NonDecimal),
      ArchiveName("13010", 2023),
      ArchiveName("13010", 2024),
      LiveName("99990", 2024, 20250320) }

\* The trees scanned: every file of the listed instruments, or none.
RepoDisks ==
    { FileSystem({ << q, OldRows >> : q \in { r \in RepoPaths : r.code \in Codes } }),
      FileSystem({ }) }

InitRepo ==
    /\ dir_exists = TRUE
    /\ disk \in RepoDisks
    /\ file_map \in ScanFiles(disk)
    /\ last = NoCall
    /\ prev = NoCall
    /\ runs = 0
    /\ repo_op = NoOp
    /\ fy_calls = << >>
    /\ run = NoRun

RepoCall(name, code, p, result) ==
    [name |-> name, code |-> code, path |-> p, map0 |-> file_map, result |-> result]

AddFile ==
    \E p \in RepoPaths :
        /\ file_map' = add_file(file_map, p.code, p)
        /\ repo_op' = RepoCall("add_file", p.code, p, NoPath)
        /\ UNCHANGED <<disk, dir_exists, last, prev, runs, run, fy_calls>>

RemoveFile ==
    \E p \in RepoPaths :
        /\ file_map' = remove_file(file_map, p.code, p)
        /\ repo_op' = RepoCall("remove_file", p.code, p, NoPath)
        /\ UNCHANGED <<disk, dir_exists, last, prev, runs, run, fy_calls>>

GetLatestFile ==
    \E code \in RepoCodes :
        /\ repo_op' = RepoCall("get_latest_file", code, NoPath, get_latest_file(file_map, code))
        /\ UNCHANGED <<disk, dir_exists, file_map, last, prev, runs, run, fy_calls>>

NextRepo == AddFile \/ RemoveFile \/ GetLatestFile

SpecRepo == InitRepo /\ [][NextRepo]_vars

----------------------------------------------------------------------------
(* get_current_fy on its own: it is applied to dates drawn from FyDates.   *)

FyYears == {2024, 2025}

\* The first and the last day of every month of FyYears.
FyDates == { x \in FyYears \X (1..12) \X (1..31) : x[3] \in {1, DaysInMonth(x[1], x[2])} }

InitFy ==
    /\ dir_exists = FALSE
    /\ disk = FileSystem({ })
    /\ file_map = << >>
    /\ last = NoCall
    /\ prev = NoCall
    /\ runs = 0
    /\ repo_op = NoOp
    /\ run = NoRun
    /\ fy_calls = << >>

GetCurrentFy ==
    /\ \E date_obj \in FyDates :
          LET call == [date |-> date_obj, result |-> get_current_fy(date_obj)]
          IN fy_calls' = IF fy_calls = << >> THEN << call >>
                         ELSE << fy_calls[Len(fy_calls)], call >>
    /\ UNCHANGED <<disk, dir_exists, file_map, last, prev, runs, repo_op, run>>

NextFy == GetCurrentFy

SpecFy == InitFy /\ [][NextFy]_vars

----------------------------------------------------------------------------
(* update_topix_data: the index time series, one file in the indices       *)
(* directory.  ind = [dir, fs]: whether the directory exists, and its      *)
(* files.                                                                  *)

TopixPath == Path("topix_daily", 0, 0, FALSE)

\* One way the call can go.  mkfail: os.makedirs raises; readfail: the read
\* of the existing file raises (a warning, the old table counts as empty);
\* resp: what get_topix does; F: the file operations of atomic_save that fail.
\* Every exception ends the call in the outer except clause, which logs it.
TopixRun(ind, target, test_mode, mkfail, readfail, resp, F) ==
    LET has == Exists(ind.fs, TopixPath)
        df_old == IF has /\ ~readfail THEN ind.fs[TopixPath] ELSE << >>
        rlog == IF has THEN << Ev("read", TopixPath, ~readfail) >> ELSE << >>
        last_date == IF df_old # << >> THEN Plain(MaxDate(df_old)) ELSE 0
        from == IF last_date # 0 THEN Plain(AddDay(Fields(last_date))) ELSE 0
        df_combined == IF df_old # << >> THEN Merge(df_old, resp.rows)
                       ELSE sort_values(resp.rows)
        sv == atomic_save(ind.fs, df_combined, TopixPath,
                          "write1" \in F, "replace1" \in F, "cleanup" \in F)
        out(dir, fs, log, resp1) ==
            [ind |-> [dir |-> dir, fs |-> fs], log |-> log, from |-> from, resp |-> resp1]
    IN IF ~ind.dir /\ mkfail
       THEN out(FALSE, ind.fs, << Ev("makedirs", TopixPath, FALSE) >>, NoResp)
       ELSE IF last_date # 0 /\ last_date >= target THEN out(TRUE, ind.fs, rlog, NoResp)
       ELSE IF test_mode THEN out(TRUE, ind.fs, rlog, NoResp)
       ELSE IF ~resp.ok \/ resp.rows = << >>
            THEN out(TRUE, ind.fs, Append(rlog, Ev("fetch", TopixPath, resp.ok)), resp)
       ELSE out(TRUE, sv.disk, rlog \o << Ev("fetch", TopixPath, TRUE) >> \o sv.log, resp)

update_topix_data(ind, target, test_mode) ==
    { TopixRun(ind, target, test_mode, mkfail, readfail, resp, F) :
        mkfail \in BOOLEAN, readfail \in BOOLEAN, resp \in Responses,
        F \in { G \in FaultSets(1) : "remove" \notin G } }

----------------------------------------------------------------------------
(* main: one run of the program, in steps.                                 *)

TestLimit == 10                  \* if args.test and i >= 10: break
TargetMarkets == {"Prime", "Standard", "Growth"}

ListedRow(code, market) == [Code |-> code, MarketCodeName |-> market]

\* listed_info.csv: two tracked instruments; one tracked after an untracked
\* one; one tracked after ten untracked ones.
Listings ==
    { << ListedRow("72030", "Prime"), ListedRow("13010", "Standard") >>,
      << ListedRow("13010", "Other"), ListedRow("72030", "Prime") >>,
      [k \in 1..(TestLimit + 1) |->
          IF k <= TestLimit THEN ListedRow("13010", "Other") ELSE ListedRow("72030", "Prime")] }

\* The bucket at the start of a run.  The first one also holds the .tmp file
\* that an interrupted save left behind and a *.csv without an underscore.
RunDisks ==
    { FileSystem({ << LiveName("72030", 2024, 20250328), OldRows >>,
                   << TempPath(LiveName("72030", 2024, 20250331)), OldRows >>,
                   << PlainName("72030"), OldRows >>,
                   << LiveName("13010", 2025, 20250401), << Row(<<2025, 4, 1>>, 0) >> >> }),
      FileSystem({ << LiveName("72030", 2024, 20250230), OldRows >> }) }

\* The indices directory at the start of a run: missing, empty, or holding
\* the index file.
RunIndices ==
    { [dir |-> FALSE, fs |-> FileSystem({ })],
      [dir |-> TRUE, fs |-> FileSystem({ })],
      [dir |-> TRUE, fs |-> FileSystem({ << TopixPath, OldRows >> })] }

\* No call of update_topix_data yet.
NoTopixCall == [called |-> FALSE, ind0 |-> [dir |-> FALSE, fs |-> FileSystem({ })],
                log |-> << >>, from |-> 0, resp |-> NoResp]

\* scannable: os.walk can list root_dir (it exists and is readable).
InitRun ==
    /\ dir_exists \in BOOLEAN
    /\ disk \in IF dir_exists THEN RunDisks ELSE { FileSystem({ }) }
    /\ file_map = << >>
    /\ last = NoCall
    /\ prev = NoCall
    /\ runs = 0
    /\ repo_op = NoOp
    /\ fy_calls = << >>
    /\ \E test \in BOOLEAN, target \in Targets, scannable \in BOOLEAN,
          listing \in Listings, ind \in RunIndices :
          run = [pc |-> "auth", test |-> test, target |-> target,
                 scannable |-> scannable, listing |-> listing, i |-> 0,
                 calls |-> << >>, events |-> << >>,
                 count_updated |-> 0, count_skipped |-> 0, count_error |-> 0,
                 scans |-> 0, topix_runs |-> 0, indices |-> ind, topix |-> NoTopixCall]

\* Lines 562-571: get_api_key raises and main returns, or the run goes on.
Authenticate ==
    /\ run.pc = "auth"
    /\ \E ok \in BOOLEAN : run' = [run EXCEPT !.pc = IF ok THEN "scan" ELSE "aborted"]
    /\ UNCHANGED <<disk, dir_exists, file_map, last, prev, runs, repo_op, fy_calls>>

\* Lines 575-580: FileRepository(daily_quotes_dir).  os.walk is called
\* without onerror: a root that is missing or cannot be listed yields no
\* entry and no exception, and the index is empty.
BuildRepository ==
    /\ run.pc = "scan"
    /\ file_map' \in IF run.scannable THEN ScanFiles(disk) ELSE { << >> }
    /\ run' = [run EXCEPT !.pc = "listing", !.scans = @ + 1]
    /\ UNCHANGED <<disk, dir_exists, last, prev, runs, repo_op, fy_calls>>

\* Where the for loop stands after the row of label i.
AfterRow(i) == IF i + 1 >= Len(run.listing) THEN "topix" ELSE "loop"

\* Lines 582-607: the listing is loaded, or main returns (the fetch of the
\* listing failed, or a required column is missing).
LoadListing ==
    /\ run.pc = "listing"
    /\ \E ok \in BOOLEAN : run' = [run EXCEPT !.pc = IF ok THEN AfterRow(-1) ELSE "aborted"]
    /\ UNCHANGED <<disk, dir_exists, file_map, last, prev, runs, repo_op, fy_calls>>

\* The sleeps and fetches of a call's log.
RateEvents(log) == SelectSeq(log, LAMBDA e : e.op \in {"sleep", "fetch"})

\* Lines 638-646: the counter that an outcome increments.
TallyNoElse(r, outcome) ==
    IF outcome = "UPDATED" THEN [r EXCEPT !.count_updated = @ + 1]
    ELSE IF outcome = "ERROR" THEN [r EXCEPT !.count_error = @ + 1]
    ELSE r

Tally(r, outcome) ==
    IF outcome = "UPDATED" THEN [r EXCEPT !.count_updated = @ + 1]
    ELSE IF outcome = "ERROR" THEN [r EXCEPT !.count_error = @ + 1]
    ELSE [r EXCEPT !.count_skipped = @ + 1]

\* Lines 611-646: one iteration of the loop over the listing.
ProcessRow ==
    /\ run.pc = "loop"
    /\ LET i == run.i
           row == run.listing[i + 1]
       IN IF row.MarketCodeName \notin TargetMarkets
          THEN /\ run' = [run EXCEPT !.count_skipped = @ + 1, !.i = i + 1, !.pc = AfterRow(i)]
               /\ UNCHANGED <<disk, file_map>>
          ELSE IF run.test /\ i >= TestLimit
          THEN /\ run' = [run EXCEPT !.pc = "topix"]
               /\ UNCHANGED <<disk, file_map>>
          ELSE \E r \in update_file_for_code(disk, file_map, dir_exists,
                                              row.Code, run.target, run.test) :
                 /\ disk' = r.disk
                 /\ file_map' = r.fm
                 /\ LET called == [run EXCEPT
                            !.calls = Append(@, [code |-> row.Code, outcome |-> r.outcome]),
                            !.events = @ \o RateEvents(r.log),
                            !.i = i + 1,
                            !.pc = AfterRow(i)]
                    IN run' = IF r.raised THEN [called EXCEPT !.pc = "crashed"]
                              ELSE Tally(called, r.outcome)
    /\ UNCHANGED <<dir_exists, last, prev, runs, repo_op, fy_calls>>

\* Lines 648-655: update_topix_data, then the summary.
UpdateTopix ==
    /\ run.pc = "topix"
    /\ \E r \in update_topix_data(run.indices, run.target, run.test) :
          run' = [run EXCEPT !.indices = r.ind,
                             !.topix = [called |-> TRUE, ind0 |-> run.indices,
                                        log |-> r.log, from |-> r.from, resp |-> r.resp],
                             !.events = @ \o RateEvents(r.log),
                             !.topix_runs = @ + 1,
                             !.pc = "done"]
    /\ UNCHANGED <<disk, dir_exists, file_map, last, prev, runs, repo_op, fy_calls>>

NextRun == Authenticate \/ BuildRepository \/ LoadListing \/ ProcessRow \/ UpdateTopix

SpecRun == InitRun /\ [][NextRun]_vars

----------------------------------------------------------------------------
(* Vocabulary of the properties: c is the record of a call (last or prev). *)

Range(t) == { t[i] : i \in 1..Len(t) }

AllOk(log) == \A i \in 1..Len(log) : log[i].ok

\* The partition the call found as the latest one.
Cur(c) == get_latest_file(c.map0, c.code)

\* The fetch client was called and returned a non-empty table.
GotRows(c) == c.called /\ c.from # 0 /\ c.resp.ok /\ c.resp.rows # << >>

\* Every fetched row lies in the window [from, target] that was asked for.
InWindow(c) ==
    \A i \in 1..Len(c.resp.rows) :
        c.from <= Plain(c.resp.rows[i].Date) /\ Plain(c.resp.rows[i].Date) <= c.target

\* The largest fetched date, and its fiscal year.
FetchedMax(c) == MaxDate(c.resp.rows)
FetchedFy(c) == get_current_fy(FetchedMax(c))

\* An update of a live partition by a non-empty, in-window fetch in which no
\* file operation failed.
CleanUpdateOfLive(c) ==
    /\ GotRows(c)
    /\ IsLive(Cur(c))
    /\ Cur(c).sfx < c.target
    /\ InWindow(c)
    /\ AllOk(c.log)

\* Rows of `old` whose date is not fetched, plus the fetched rows `new`.
Union(old, new) == { r \in Range(old) : r.Date \notin Dates(new) } \cup Range(new)

\* The call did nothing but read: no sleep, no fetch, no file created,
\* replaced or deleted, no index mutation.
Quiet(c) == \A i \in 1..Len(c.log) : c.log[i].op = "read"

\* The call found a latest partition and a last-archived date for it.
HasLastDate(c) ==
    /\ c.called
    /\ Cur(c) \notin {NoPath, ValueErrorPath}
    /\ LastUpdated(c.disk0, Cur(c)) # 0

----------------------------------------------------------------------------
(* C1: atomic_save(table, path): if the write of path+".tmp" or the        *)
(* replace fails, the error propagates to the caller, the file at path     *)
(* has the content it had before (or is still absent), and no path+".tmp"  *)
(* remains.                                                                *)

\* C1 as stated: after a failed save the path is as before and no temporary
\* file is left.  Fails: the cleanup's own os.remove may raise OSError, which
\* atomic_save swallows (lines 208-212), and the temporary file stays.
C1_Original ==
    \A i \in 1..Len(last.saves) :
        last.saves[i].raised =>
            /\ last.outcome = "ERROR"
            /\ last.saves[i].after = last.saves[i].before
            /\ ~last.saves[i].tmp_left

\* The failing operation of a save in the log: the write or the replace.
SaveFailedAt(c, path) ==
    \E k \in 1..Len(c.log) :
        \/ c.log[k] = Ev("write_tmp", TempPath(path), FALSE)
        \/ c.log[k] = Ev("replace", path, FALSE)

\* C1 amended: if the write of path+".tmp" or the replace fails, the error
\* propagates (the engine returns ERROR), the file at path has the content it
\* had before (or is still absent), and path+".tmp" is gone unless its removal
\* in the cleanup failed too.
C1_AtomicSaveFailure ==
    \A i \in 1..Len(last.saves) :
        LET sv == last.saves[i]
        IN /\ sv.raised <=> SaveFailedAt(last, sv.path)
           /\ sv.raised =>
                /\ last.outcome = "ERROR"
                /\ i = Len(last.saves)
                /\ sv.after = sv.before
                /\ sv.tmp_left => Ev("remove_tmp", TempPath(sv.path), FALSE) \in Range(last.log)

\* A save onto an existing file failed, the file is as it was, no temporary
\* file is left.
C1_Witness ==
    \E i \in 1..Len(last.saves) :
        /\ last.saves[i].raised
        /\ last.saves[i].before.present
        /\ last.saves[i].after = last.saves[i].before
        /\ ~last.saves[i].tmp_left

----------------------------------------------------------------------------
(* C2: no rollover.  The latest partition is the live file                 *)
(* {code}_{Y}fy_{D}.csv with D before the target end date, the fetch       *)
(* returns rows (inside the window asked for) whose latest date D' lies in *)
(* fiscal year Y, and no file operation fails.  Then the outcome is        *)
(* UPDATED, {code}_{Y}fy_{D'}.csv exists and holds the original rows plus  *)
(* the fetched rows, no file exists at the old path, and the index lists   *)
(* the new path and not the old one.                                       *)

C2_Case == CleanUpdateOfLive(last) /\ FetchedFy(last) = Cur(last).fy

C2_NoRolloverUpdate ==
    C2_Case =>
        LET old == Cur(last)
            new == LiveName(last.code, old.fy, Plain(FetchedMax(last)))
        IN /\ last.outcome = "UPDATED"
           /\ Exists(disk, new)
           /\ Range(disk[new]) = Union(last.disk0[old], last.resp.rows)
           /\ Dates(last.disk0[old]) \subseteq Dates(disk[new])
           /\ ~Exists(disk, old)
           /\ InList(file_map[last.code], new)
           /\ ~InList(file_map[last.code], old)

C2_Witness == C2_Case /\ last.outcome = "UPDATED" /\ Len(last.resp.rows) >= 1

----------------------------------------------------------------------------
(* C3: rollover.  The latest partition is a live file of fiscal year Y,    *)
(* the latest fetched row lies in a later fiscal year, and no file         *)
(* operation fails.  Then (a) {code}_{Y}fy.csv exists and holds the prior  *)
(* rows merged with every fetched row dated before April 1 of the new      *)
(* fiscal year, (b) a live file of the new fiscal year exists, named with  *)
(* the largest fetched date, holding exactly the fetched rows dated on or  *)
(* after that April 1, (c) no file is left at the old live path, and the   *)
(* outcome is UPDATED.                                                     *)

C3_Case == CleanUpdateOfLive(last) /\ FetchedFy(last) > Cur(last).fy

C3_RolloverSplit ==
    C3_Case =>
        LET old == Cur(last)
            rows == last.resp.rows
            april1 == << FetchedFy(last), 4, 1 >>
            before == { i \in 1..Len(rows) : DashLess(rows[i].Date, april1) }
            after == { i \in 1..Len(rows) : ~DashLess(rows[i].Date, april1) }
            archive == ArchiveName(last.code, old.fy)
            new == LiveName(last.code, FetchedFy(last), Plain(FetchedMax(last)))
        IN /\ last.outcome = "UPDATED"
           /\ Exists(disk, archive)
           /\ Range(disk[archive]) =
                { r \in Range(last.disk0[old]) : \A i \in before : rows[i].Date # r.Date }
                    \cup { rows[i] : i \in before }
           /\ Exists(disk, new)
           /\ Range(disk[new]) = { rows[i] : i \in after }
           /\ Len(disk[new]) = Cardinality(after)
           /\ ~Exists(disk, old)

\* A rollover that put a fetched row into each of the two files.
C3_Witness ==
    /\ C3_Case
    /\ last.outcome = "UPDATED"
    /\ \E i, j \in 1..Len(last.resp.rows) :
          /\ get_current_fy(last.resp.rows[i].Date) = Cur(last).fy
          /\ get_current_fy(last.resp.rows[j].Date) > Cur(last).fy

----------------------------------------------------------------------------
(* C4: the table written after a merge (the no-rollover merge, and the     *)
(* old-year merge at rollover) has exactly one row per date, carries the   *)
(* fetched row's values for every date present in both inputs, and is      *)
(* sorted ascending by date; also when the date ranges overlap.            *)

\* The fetched rows that are merged into the old table: all of them, or at a
\* rollover those dated before April 1 of the new fiscal year.
MergedRows(c) ==
    IF FetchedFy(c) > CurrentFileFy(Cur(c), FetchedFy(c))
    THEN { r \in Range(c.resp.rows) : DashLess(r.Date, << FetchedFy(c), 4, 1 >>) }
    ELSE Range(c.resp.rows)

C4_Case == GotRows(last) /\ Len(last.saves) >= 1 /\ MergedRows(last) # {}

C4_MergeCorrect ==
    C4_Case =>
        LET t == last.saves[1].df
            old == last.disk0[Cur(last)]
        IN /\ UniqueDates(t)
           /\ IsSorted(t)
           /\ Dates(t) = Dates(old) \cup { r.Date : r \in MergedRows(last) }
           /\ \A i \in 1..Len(t) :
                IF \E r \in MergedRows(last) : r.Date = t[i].Date
                THEN t[i] \in MergedRows(last)
                ELSE t[i] \in Range(old)

\* A merge in which a fetched row replaced a row of the old table.
C4_Witness ==
    /\ C4_Case
    /\ \E r \in MergedRows(last) : \E o \in Range(last.disk0[Cur(last)]) :
          r.Date = o.Date /\ r # o

----------------------------------------------------------------------------
(* Two calls in succession: prev, then last. *)

RowsInWindow(t, from, to) ==
    SelectIdx(t, { i \in 1..Len(t) : from <= Plain(t[i].Date) /\ Plain(t[i].Date) <= to }, 1)

\* The second call saw the upstream data of the first: if it fetched, it got
\* the rows of the first response that lie in its own window.
SameUpstream ==
    \/ last.from = 0
    \/ /\ prev.from # 0
       /\ prev.resp.ok
       /\ last.resp.ok
       /\ last.resp.rows = RowsInWindow(prev.resp.rows, last.from, last.target)

\* Two real (not dry-run) calls for the same instrument with the same target
\* end date and no new upstream data in between.
Rerun ==
    /\ prev.called /\ last.called
    /\ ~prev.test /\ ~last.test
    /\ last.code = prev.code
    /\ last.target = prev.target
    /\ SameUpstream

Unchanged == disk = last.disk0 /\ file_map = last.map0

----------------------------------------------------------------------------
(* C5: idempotence.  If update_file_for_code is run and then run again     *)
(* with the same target end date and no new upstream data, the second run  *)
(* returns ALREADY_LATEST and leaves every partition file and the index    *)
(* unchanged.                                                              *)

\* C5 as stated, for a first run that returned UPDATED after an in-window
\* fetch with no failing file operation.  Fails: when the upstream data ends
\* before the target end date, the partition written by the first run is
\* still behind it, and the second run fetches again and returns NO_NEW_DATA
\* (lines 274, 305-307).
C5_Original ==
    (Rerun /\ prev.outcome = "UPDATED" /\ InWindow(prev) /\ AllOk(prev.log)) =>
        (last.outcome = "ALREADY_LATEST" /\ Unchanged)

\* C5 amended: after a run that returned UPDATED, ALREADY_LATEST or
\* NO_NEW_DATA, a second run with the same target end date and no new
\* upstream data returns ALREADY_LATEST, or NO_NEW_DATA when the stored data
\* ends before the target end date, and leaves every partition file and the
\* index unchanged.
C5_Idempotent ==
    (Rerun /\ prev.outcome \in {"UPDATED", "ALREADY_LATEST", "NO_NEW_DATA"}) =>
        /\ last.outcome \in {"ALREADY_LATEST", "NO_NEW_DATA"}
        /\ last.outcome = "ALREADY_LATEST" <=>
             LastUpdated(last.disk0, Cur(last)) >= last.target
        /\ Unchanged

\* A second run after an update that wrote files.
C5_Witness ==
    /\ Rerun
    /\ prev.outcome = "UPDATED"
    /\ prev.saves # << >>
    /\ last.outcome = "ALREADY_LATEST"
    /\ Unchanged

----------------------------------------------------------------------------
(* C6: update_file_for_code never raises to its caller: for every on-disk  *)
(* state (also a partition whose date suffix is not a valid date), every   *)
(* target end date and every fetch behaviour, it returns an outcome code.  *)
(* Fails: strptime at line 278 is outside the try block and raises         *)
(* ValueError for a suffix such as 20250230.                               *)

C6_NeverRaises == last.called => ~last.raised

----------------------------------------------------------------------------
(* C7: index/filesystem consistency.  If the index's set of paths for the  *)
(* instrument equals the set of its partition .csv files on disk before a  *)
(* call, the two are equal when it returns, whatever the outcome; and      *)
(* every index add or remove comes only after the file create or delete    *)
(* it mirrors has succeeded.                                               *)

Consistent(fs, fm, code) == Indexed(fm, code) = CsvFiles(fs, code)

IndexFollowsDisk(log) ==
    \A i \in 1..Len(log) :
        /\ log[i].op = "index_add" =>
              \E j \in 1..(i - 1) : log[j] = Ev("replace", log[i].path, TRUE)
        /\ log[i].op = "index_remove" =>
              i > 1 /\ log[i - 1] = Ev("remove", log[i].path, TRUE)

C7_IndexConsistent ==
    (last.called /\ Consistent(last.disk0, last.map0, last.code)) =>
        /\ Consistent(disk, file_map, last.code)
        /\ IndexFollowsDisk(last.log)

\* A rollover in which the delete of the old live file failed and then the
\* save of the new live file failed.
C7_Witness ==
    /\ last.called
    /\ Consistent(last.disk0, last.map0, last.code)
    /\ last.outcome = "ERROR"
    /\ Len(last.saves) = 2
    /\ Ev("remove", Cur(last), FALSE) \in Range(last.log)
    /\ file_map # last.map0

----------------------------------------------------------------------------
(* C8: partition uniqueness.  Starting from a state in which it holds,     *)
(* after every run, whatever the outcome of the file operations inside it, *)
(* each instrument has at most one live (dated) partition on disk, and     *)
(* each (instrument, fiscal year) at most one live and one archived one.   *)
(* Stated for runs whose fetch is in-window.                               *)
(* Fails: when os.remove of the old live file raises OSError the engine    *)
(* logs a warning and goes on (lines 370-376, 418-422), leaving the old    *)
(* and the new live file side by side.                                     *)

OneLive(fs, code) ==
    \A p, q \in CsvFiles(fs, code) : (IsLive(p) /\ IsLive(q)) => p = q

C8_PartitionUnique ==
    (last.called /\ InWindow(last) /\ OneLive(last.disk0, last.code)) =>
        OneLive(disk, last.code)

----------------------------------------------------------------------------
(* C9: an archived (dateless) partition is immutable: no later run deletes *)
(* it or changes its content; in particular when the latest partition      *)
(* found is an archived file and new rows are fetched.                     *)
(* Stated for runs whose fetch is in-window and in which no file operation *)
(* fails.  Fails: with an archived file as the latest partition and        *)
(* fetched rows of its own fiscal year, the no-rollover branch writes a    *)
(* live file and deletes the archived one (lines 408-420).                 *)

C9_ArchiveImmutable ==
    (last.called /\ InWindow(last) /\ AllOk(last.log)) =>
        \A p \in DOMAIN last.disk0 :
            IsArchived(p) => (Exists(disk, p) /\ disk[p] = last.disk0[p])

----------------------------------------------------------------------------
(* C10: recovery from a partial rollover.  After a run in which the old    *)
(* fiscal year Y was archived but the write of the new year's file failed  *)
(* (ERROR), the next run against the same upstream data returns UPDATED    *)
(* and leaves what a failure-free rollover would have left: the archived   *)
(* partition of Y with unchanged content, and a live partition of the new  *)
(* fiscal year holding exactly the rows dated on or after its April 1.     *)

PartialRollover(c) ==
    /\ GotRows(c)
    /\ InWindow(c)
    /\ c.outcome = "ERROR"
    /\ Len(c.saves) = 2
    /\ ~c.saves[1].raised
    /\ c.saves[2].raised

\* The failed rollover, then a run with the same target in which nothing fails.
C10_Case == PartialRollover(prev) /\ Rerun /\ AllOk(last.log)

\* The two files the claim names are as it says.
C10_ArchiveAndLive ==
    LET archive == prev.saves[1].path
        new == prev.saves[2].path
        april1 == << FetchedFy(prev), 4, 1 >>
    IN /\ last.outcome = "UPDATED"
       /\ IsArchived(archive)
       /\ Exists(disk, archive)
       /\ disk[archive] = last.disk0[archive]
       /\ IsLive(new) /\ new.fy = FetchedFy(prev) /\ new.sfx = Plain(FetchedMax(prev))
       /\ Exists(disk, new)
       /\ Range(disk[new]) = { r \in Range(prev.resp.rows) : ~DashLess(r.Date, april1) }

\* The disk and the index are those of the failed run done without failure.
C10_AsFailureFree ==
    \E r \in update_file_for_code(prev.disk0, prev.map0, dir_exists,
                                  prev.code, prev.target, FALSE) :
        /\ r.resp = prev.resp
        /\ AllOk(r.log)
        /\ r.disk = disk
        /\ Indexed(r.fm, prev.code) = Indexed(file_map, last.code)

\* C10 as stated.  Fails: when an older archived file is indexed before the
\* one just written, get_latest_file returns the older one (both have key 0,
\* lines 157-167), and the recovery merges the re-fetched old-year rows into
\* that file.
C10_RolloverRecovery == C10_Case => (C10_ArchiveAndLive /\ C10_AsFailureFree)

----------------------------------------------------------------------------
(* C11: get_latest_file(code) returns, among the instrument's indexed      *)
(* partitions, the one whose file name carries the numerically largest     *)
(* 8-digit date; a partition with no date or an unparsable date suffix is  *)
(* returned only when the instrument has no dated partition; it returns    *)
(* None when the instrument has no indexed partition; and it never raises  *)
(* on a malformed file name.                                               *)
(* Fails: a suffix of 8 digit characters that are not decimal passes       *)
(* isdigit() and len() == 8, and int() raises ValueError (lines 161-162).  *)

Dated(p) == EightDigits(p.sfx)

LatestAmong(files, result) ==
    LET dated == { q \in files : Dated(q) }
    IN /\ files = {} <=> result = NoPath
       /\ files # {} => result \in files
       /\ dated # {} => (result \in dated /\ \A q \in dated : q.sfx <= result.sfx)

C11_LatestFile ==
    repo_op.name = "get_latest_file" =>
        /\ repo_op.result # ValueErrorPath
        /\ LatestAmong(Indexed(repo_op.map0, repo_op.code), repo_op.result)

----------------------------------------------------------------------------
(* C19: add_file and remove_file are idempotent: add_file(code, p) applied *)
(* twice yields the index of one application and never lists the path      *)
(* twice; remove_file(code, p) applied twice yields the index of one       *)
(* application; remove_file for an unknown code or an unlisted path leaves *)
(* the index unchanged; neither changes the entries of another instrument. *)

Occurrences(t, p) == Cardinality({ i \in 1..Len(t) : t[i] = p })

OthersUnchanged(before, after, code) ==
    \A c \in RepoCodes \ {code} :
        /\ c \in DOMAIN after <=> c \in DOMAIN before
        /\ Files(after, c) = Files(before, c)

C19_AddRemoveIdempotent ==
    /\ repo_op.name = "add_file" =>
          /\ add_file(file_map, repo_op.code, repo_op.path) = file_map
          /\ Occurrences(Files(file_map, repo_op.code), repo_op.path) = 1
          /\ OthersUnchanged(repo_op.map0, file_map, repo_op.code)
    /\ repo_op.name = "remove_file" =>
          /\ remove_file(file_map, repo_op.code, repo_op.path) = file_map
          /\ Occurrences(Files(file_map, repo_op.code), repo_op.path) = 0
          /\ (repo_op.code \notin DOMAIN repo_op.map0
                \/ ~InList(Files(repo_op.map0, repo_op.code), repo_op.path))
               => file_map = repo_op.map0
          /\ OthersUnchanged(repo_op.map0, file_map, repo_op.code)

\* add_file of a path that is already listed, next to entries of another
\* instrument.
C19_Witness ==
    /\ repo_op.name = "add_file"
    /\ InList(Files(repo_op.map0, repo_op.code), repo_op.path)
    /\ Len(Files(file_map, repo_op.code)) >= 2
    /\ file_map = repo_op.map0
    /\ \E c \in DOMAIN file_map : c # repo_op.code /\ file_map[c] # << >>

----------------------------------------------------------------------------
(* C12: locate step.  If the repository holds no partition for the         *)
(* instrument, or the instrument's bucket directory does not exist,        *)
(* update_file_for_code returns FILE_NOT_FOUND and performs no fetch, no   *)
(* sleep and no change to any file or to the index.                        *)

NoPartition(c) == Files(c.map0, c.code) = << >>

\* C12 as stated.  Fails: for a missing bucket directory the engine returns
\* DIR_NOT_FOUND (lines 233-235).
C12_Original ==
    (last.called /\ (~dir_exists \/ NoPartition(last))) =>
        /\ last.outcome = "FILE_NOT_FOUND"
        /\ last.log = << >>
        /\ Unchanged

\* C12 amended: if the bucket directory does not exist the outcome is
\* DIR_NOT_FOUND; if it exists and the repository holds no partition for the
\* instrument the outcome is FILE_NOT_FOUND; in both cases there is no fetch,
\* no sleep and no change to any file or to the index.
C12_NotFound ==
    (last.called /\ (~dir_exists \/ NoPartition(last))) =>
        /\ ~last.raised
        /\ last.outcome = IF dir_exists THEN "FILE_NOT_FOUND" ELSE "DIR_NOT_FOUND"
        /\ last.log = << >>
        /\ Unchanged

\* An instrument without partition in a bucket that holds another one's.
C12_Witness ==
    /\ last.called
    /\ dir_exists
    /\ NoPartition(last)
    /\ DOMAIN disk # {}
    /\ last.outcome = "FILE_NOT_FOUND"

----------------------------------------------------------------------------
(* C13: freshness check.  Whenever the last-archived date of the           *)
(* instrument's latest partition is on or after the target end date,       *)
(* update_file_for_code returns ALREADY_LATEST without calling the fetch   *)
(* client, without sleeping, and without creating, replacing or deleting   *)
(* any file or mutating the index.                                         *)

C13_Freshness ==
    (HasLastDate(last) /\ LastUpdated(last.disk0, Cur(last)) >= last.target) =>
        /\ ~last.raised
        /\ last.outcome = "ALREADY_LATEST"
        /\ Quiet(last)
        /\ Unchanged

\* A call for a partition that an update has just brought to the target date.
C13_Witness ==
    /\ HasLastDate(last)
    /\ LastUpdated(last.disk0, Cur(last)) = last.target
    /\ prev.outcome = "UPDATED"
    /\ last.outcome = "ALREADY_LATEST"

----------------------------------------------------------------------------
(* C14: dry-run mode.  With the test flag set, update_file_for_code never  *)
(* calls the fetch client, never sleeps, and never creates, replaces or    *)
(* deletes a file or mutates the index, for every on-disk state; when the  *)
(* latest partition is behind the target end date it returns UPDATED.      *)
(* Fails: for a latest partition whose suffix is behind the target but is  *)
(* no calendar date, strptime (line 278) raises ValueError before the      *)
(* test flag is looked at (line 288); see C6.                              *)

Behind(c) == HasLastDate(c) /\ LastUpdated(c.disk0, Cur(c)) < c.target

C14_DryRun ==
    (last.called /\ last.test) =>
        /\ Quiet(last)
        /\ Unchanged
        /\ Behind(last) => (~last.raised /\ last.outcome = "UPDATED")

----------------------------------------------------------------------------
(* C16: malformed on-disk naming is surfaced, not repaired.  When the      *)
(* instrument's latest partition has a date suffix that is present but is  *)
(* not a valid YYYYMMDD date, update_file_for_code returns DATE_CALC_ERROR *)
(* or FILENAME_FORMAT_ERROR, makes no fetch, and leaves every file and the *)
(* index unchanged.                                                        *)
(* Fails: a suffix such as 20250230 that sorts before the target makes     *)
(* strptime (line 278, outside the try block) raise ValueError; see C6.    *)

MalformedSuffix(c) ==
    /\ c.called
    /\ dir_exists
    /\ Cur(c) \notin {NoPath, ValueErrorPath}
    /\ IsLive(Cur(c))
    /\ ~(EightDigits(Cur(c).sfx) /\ ValidDate(Fields(Cur(c).sfx)))

C16_MalformedSurfaced ==
    MalformedSuffix(last) =>
        /\ ~last.raised
        /\ last.outcome \in {"DATE_CALC_ERROR", "FILENAME_FORMAT_ERROR"}
        /\ Quiet(last)
        /\ Unchanged

----------------------------------------------------------------------------
(* C20: rollover sub-writes are independent.  If the atomic save of the    *)
(* new-year live partition fails after the old-year archive was saved,     *)
(* update_file_for_code returns ERROR, the archived file of the old fiscal *)
(* year is on disk with the merged old-year rows and is listed in the      *)
(* index, the old live file stays deleted and unlisted, and neither a      *)
(* partial new-year file nor a .tmp file exists.                           *)
(* Stated for the runs with an in-window fetch in which the cleanup of the *)
(* failed save removed its temporary file.  Fails: when os.remove of the old live file raised      *)
(* OSError (lines 370-376) the file is still on disk and in the index; see *)
(* C8.                                                                     *)

NewYearSaveFailed(c) ==
    /\ GotRows(c)
    /\ InWindow(c)
    /\ IsLive(Cur(c))
    /\ Len(c.saves) = 2
    /\ ~c.saves[1].raised
    /\ c.saves[2].raised
    /\ ~c.saves[2].tmp_left

C20_SubWritesIndependent ==
    NewYearSaveFailed(last) =>
        LET old == Cur(last)
            archive == last.saves[1].path
            new == last.saves[2].path
            rows == last.resp.rows
            april1 == << FetchedFy(last), 4, 1 >>
            before == { r \in Range(rows) : DashLess(r.Date, april1) }
        IN /\ last.outcome = "ERROR"
           /\ archive = ArchiveName(last.code, old.fy)
           /\ Exists(disk, archive)
           /\ Range(disk[archive]) =
                { r \in Range(last.disk0[old]) : \A n \in before : n.Date # r.Date }
                    \cup before
           /\ InList(Files(file_map, last.code), archive)
           /\ ~Exists(disk, old)
           /\ ~InList(Files(file_map, last.code), old)
           /\ ~Exists(disk, new)
           /\ ~Exists(disk, TempPath(new))
           /\ ~Exists(disk, TempPath(archive))

----------------------------------------------------------------------------
(* Vocabulary of the properties of a run of main. *)

Running == run.pc # "off"

CallCodes == [k \in 1..Len(run.calls) |-> run.calls[k].code]

\* The codes of the listed instruments of a configured market segment, in
\* listing order.
Tracked(listing) ==
    LET rows == SelectSeq(listing, LAMBDA r : r.MarketCodeName \in TargetMarkets)
    IN [k \in 1..Len(rows) |-> rows[k].Code]

IsPrefix(a, b) == Len(a) <= Len(b) /\ a = SubSeq(b, 1, Len(a))

----------------------------------------------------------------------------
(* C15: rate limiting.  Every call to the fetch client made during a run,  *)
(* the per-instrument daily-records fetch and the index-records fetch, is  *)
(* preceded by a sleep of the inter-request delay, and no other suspension *)
(* occurs.                                                                 *)
(* Fails: update_topix_data calls get_topix (lines 483-485) without a      *)
(* sleep before it.                                                        *)

C15_RateLimited ==
    Running =>
        \A k \in 1..Len(run.events) :
            /\ run.events[k].op = "fetch" => (k > 1 /\ run.events[k - 1].op = "sleep")
            /\ run.events[k].op = "sleep" =>
                  (k < Len(run.events) /\ run.events[k + 1].op = "fetch")

----------------------------------------------------------------------------
(* C17: if the root directory cannot be scanned (missing or unreadable)    *)
(* when the FileRepository is built, the run aborts before the Update      *)
(* Engine is invoked for any instrument: update_file_for_code is never     *)
(* called in that run.                                                     *)
(* Fails: os.walk (line 124) swallows the error of listing its top         *)
(* directory, _scan_files returns with an empty index, no exception        *)
(* reaches the try of lines 576-580, and the loop runs over the listing.   *)

C17_ScanFailureAborts ==
    (Running /\ ~run.scannable) => run.calls = << >>

----------------------------------------------------------------------------
(* C18: single pass.  In one run every listed instrument whose market      *)
(* segment is in the configured set is passed to update_file_for_code      *)
(* exactly once, in listing order and with no retry; an ERROR outcome for  *)
(* one instrument does not prevent the following ones from being           *)
(* processed; and the index time-series update is performed exactly once,  *)
(* after the last instrument.                                              *)
(* Fails: a ValueError raised by update_file_for_code (C6) ends main in    *)
(* the middle of the loop; and in test mode the loop breaks at the first   *)
(* tracked row of label 10 or more (lines 620-622).                        *)

C18_SinglePass ==
    Running =>
        /\ IsPrefix(CallCodes, Tracked(run.listing))
        /\ run.topix_runs <= 1
        /\ run.topix_runs = 1 => CallCodes = Tracked(run.listing)
        /\ run.pc \in {"done", "crashed"} =>
              (CallCodes = Tracked(run.listing) /\ run.topix_runs = 1)

----------------------------------------------------------------------------
(* C21: fetch window.  In a non-dry run that passes the freshness check    *)
(* (the latest partition has a last-archived date earlier than the target  *)
(* end date) the fetch client is called exactly once, with from = the      *)
(* last-archived date + 1 calendar day and to = the target end date, and   *)
(* from <= to; if the fetch result is empty the outcome is NO_NEW_DATA and *)
(* every file and the index are unchanged.                                 *)

Fetches(c) == Cardinality({ i \in 1..Len(c.log) : c.log[i].op = "fetch" })

C21_FetchWindow ==
    (last.called /\ ~last.test /\ Behind(last)) =>
        /\ Fetches(last) = 1
        /\ last.from = Plain(AddDay(Fields(LastUpdated(last.disk0, Cur(last)))))
        /\ last.to = last.target
        /\ last.from <= last.to
        /\ (last.resp.ok /\ last.resp.rows = << >>) =>
              (last.outcome = "NO_NEW_DATA" /\ Unchanged)

----------------------------------------------------------------------------
(* C22: outcome tally.  At the end of a run that iterates all listed       *)
(* instruments, updated + skipped + error equals the number of listed      *)
(* instruments, and each instrument increments exactly one counter:        *)
(* UPDATED increments updated, ERROR increments error, and every other     *)
(* outcome, as well as every instrument outside the configured market      *)
(* segments, increments skipped.                                          *)

Counted == run.count_updated + run.count_skipped + run.count_error

\* The run reached its summary after the loop went through the whole listing.
IteratedAll == run.pc = "done" /\ run.i = Len(run.listing)

CallsWith(outcomes) ==
    Cardinality({ k \in 1..Len(run.calls) : run.calls[k].outcome \in outcomes })

Untracked ==
    Cardinality({ k \in 1..Len(run.listing) :
                    run.listing[k].MarketCodeName \notin TargetMarkets })

C22_OutcomeTally ==
    /\ (Running /\ run.pc # "crashed") => Counted = run.i
    /\ IteratedAll =>
          /\ Counted = Len(run.listing)
          /\ run.count_updated = CallsWith({"UPDATED"})
          /\ run.count_error = CallsWith({"ERROR"})
          /\ run.count_skipped = Untracked + (Len(run.calls) - CallsWith({"UPDATED", "ERROR"}))

\* A whole listing was processed: one instrument was skipped for its market
\* segment and the call for another returned neither UPDATED nor ERROR.
C22_Witness ==
    /\ IteratedAll
    /\ Untracked = 1
    /\ \E k \in 1..Len(run.calls) : run.calls[k].outcome = "NO_NEW_DATA"

----------------------------------------------------------------------------
(* C23: the repository scan indexes only files whose name ends in .csv and *)
(* contains an underscore, keyed by the first underscore-delimited segment *)
(* of the filename; a leftover path+".tmp" file from an interrupted save   *)
(* is never indexed and therefore never returned by get_latest_file; and   *)
(* the scan is performed exactly once per run: never twice, and once       *)
(* before the listing is loaded and the first instrument is processed.     *)

AfterScan == run.pc \in {"listing", "loop", "topix", "done", "crashed"}

C23_ScanIndex ==
    Running =>
        /\ \A code \in DOMAIN file_map : \A k \in 1..Len(file_map[code]) :
              LET p == file_map[code][k]
              IN ~p.tmp /\ p.fy # NoSegment /\ p.code = code
        /\ \A code \in Codes : ~get_latest_file(file_map, code).tmp
        /\ run.scans <= 1
        /\ AfterScan => run.scans = 1
        /\ run.pc \in {"auth", "scan"} => run.scans = 0

\* A run ended on a bucket that holds a .tmp file and a *.csv without an
\* underscore next to an indexed partition of the same instrument.
C23_Witness ==
    /\ run.pc = "done"
    /\ run.scans = 1
    /\ Files(file_map, "72030") # << >>
    /\ Exists(disk, PlainName("72030"))
    /\ \E p \in DOMAIN disk : p.tmp /\ p.code = "72030"

----------------------------------------------------------------------------
(* C24: daily-record invariant.  For every fetch result, including one     *)
(* that repeats a date or is unordered, every partition file the engine    *)
(* writes (the merged live file, the archived file and the new live file   *)
(* created at rollover) has a unique date per row and dates sorted         *)
(* ascending, provided the partition read from disk satisfied this.        *)

WellFormed(t) == UniqueDates(t) /\ IsSorted(t)

\* The partition the call read was well formed.
ReadWellFormed(c) == Exists(c.disk0, Cur(c)) /\ WellFormed(c.disk0[Cur(c)])

C24_DailyRecords ==
    (GotRows(last) /\ ReadWellFormed(last)) =>
        \A k \in 1..Len(last.saves) :
            ~last.saves[k].raised => WellFormed(last.saves[k].after.table)

----------------------------------------------------------------------------
(* C25: fiscal-year containment.  If every row of every partition named    *)
(* for fiscal year Y has a date between April 1 of Y and March 31 of Y+1   *)
(* before a run, the same holds after any run of update_file_for_code, for *)
(* every last-archived date and every fetched date range, including a      *)
(* latest partition that is an archived file and a fetch that spans more   *)
(* than one fiscal-year boundary.                                          *)

InFiscalYear(d, y) == ~DashLess(d, << y, 4, 1 >>) /\ ~DashLess(<< y + 1, 3, 31 >>, d)

Contained(fs) ==
    \A p \in DOMAIN fs :
        (IsCsv(p) /\ p.fy > 0) => \A d \in Dates(fs[p]) : InFiscalYear(d, p.fy)

OneBoundary(c) ==
    \A d \in Dates(c.resp.rows) :
        InFiscalYear(d, Cur(c).fy) \/ InFiscalYear(d, Cur(c).fy + 1)

----------------------------------------------------------------------------
(* C26: get_current_fy(date) returns the calendar year of the date when    *)
(* its month is April through December and the calendar year minus one     *)
(* when its month is January through March, so that every date from April  *)
(* 1 of Y through March 31 of Y+1 maps to Y and the result is              *)
(* non-decreasing in the date.                                             *)

C26_FiscalYear ==
    /\ \A k \in 1..Len(fy_calls) :
          LET c == fy_calls[k]
          IN /\ c.date[2] \in 4..12 => c.result = c.date[1]
             /\ c.date[2] \in 1..3 => c.result = c.date[1] - 1
             /\ InFiscalYear(c.date, c.result)
             /\ \A y \in FyYears : InFiscalYear(c.date, y) => c.result = y
    /\ \A j, k \in 1..Len(fy_calls) :
          DashLess(fy_calls[j].date, fy_calls[k].date) =>
              fy_calls[j].result <= fy_calls[k].result

\* The two sides of a fiscal-year boundary: March 31 and April 1.
C26_Witness ==
    /\ Len(fy_calls) = 2
    /\ fy_calls[1] = [date |-> << 2025, 3, 31 >>, result |-> 2024]
    /\ fy_calls[2] = [date |-> << 2025, 4, 1 >>, result |-> 2025]

----------------------------------------------------------------------------
(* C27: index time-series update (update_topix_data), in a run that is not *)
(* a dry run.  If the index file's maximum date is on or after the target  *)
(* end date, no fetch is made and the file is unchanged; otherwise rows    *)
(* from maximum date + 1 day (or with no lower bound when no file exists)  *)
(* up to the target end date are fetched and the file is replaced through  *)
(* atomic_save by the union of old and new rows with exactly one row per   *)
(* date (new row wins), sorted ascending; any failure leaves the prior     *)
(* file intact and is not raised to the caller.                            *)

TopixOld == IF Exists(run.topix.ind0.fs, TopixPath) THEN run.topix.ind0.fs[TopixPath]
            ELSE << >>

TopixFresh == TopixOld # << >> /\ Plain(MaxDate(TopixOld)) >= run.target

TopixIntact == Content(run.indices.fs, TopixPath) = Content(run.topix.ind0.fs, TopixPath)

C27_IndexUpdate ==
    (Running /\ run.topix.called /\ ~run.test) =>
        LET t == run.topix
            fetched == t.resp.ok /\ t.resp.rows # << >>
        IN /\ TopixFresh => (Fetches(t) = 0 /\ TopixIntact)
           /\ (~TopixFresh /\ (t.ind0.dir \/ run.indices.dir)) =>
                 /\ Fetches(t) = 1
                 /\ t.from = IF TopixOld = << >> THEN 0
                             ELSE Plain(AddDay(MaxDate(TopixOld)))
           /\ (~TopixFresh /\ fetched /\ AllOk(t.log)) =>
                 /\ Exists(run.indices.fs, TopixPath)
                 /\ WellFormed(run.indices.fs[TopixPath])
                 /\ Range(run.indices.fs[TopixPath]) = Union(TopixOld, t.resp.rows)
           /\ ~AllOk(t.log) => TopixIntact
           /\ run.pc = "done"

----------------------------------------------------------------------------
(* C28: no data loss at any step.  In both the no-rollover and the         *)
(* rollover path the replacement file is fully committed before the old    *)
(* partition file is deleted, so in every intermediate state (including    *)
(* one reached by a failure or a process interrupt between any two steps)  *)
(* every date that was stored for the instrument before the run is still   *)
(* present in some partition file on disk.                                 *)
(*                                                                         *)
(* The disk that an interrupt leaves after a step is the disk that the     *)
(* failure of the next step leaves (with a failing cleanup where the step  *)
(* is inside atomic_save), so the states after a call, taken over every    *)
(* set of failing file operations, include every intermediate disk.        *)

Stored(fs, code) == UNION { Dates(fs[p]) : p \in CsvFiles(fs, code) }

\* The file that replaces the old partition was committed (os.replace
\* succeeded) before the old partition was deleted.
CommittedBeforeDelete(c) ==
    \A k \in 1..Len(c.log) :
        c.log[k].op = "remove" =>
            \E j \in 1..(k - 1) : c.log[j].op = "replace" /\ c.log[j].ok

\* The fetch of the call, if any, returned rows of the window asked for that
\* cross at most one fiscal-year boundary.
Regular(c) == GotRows(c) => (InWindow(c) /\ OneBoundary(c))

\* Stated for calls whose fetches, and those of the call before, are regular.
C28_NoDataLoss ==
    (last.called /\ Regular(last) /\ Regular(prev)) =>
        /\ CommittedBeforeDelete(last)
        /\ Stored(last.disk0, last.code) \subseteq Stored(disk, last.code)

----------------------------------------------------------------------------
(* C29: live filename date invariant.  After every run that returns        *)
(* UPDATED, the as-of date in the name of each live partition the run      *)
(* wrote equals the maximum Date among that file's rows, is later than the *)
(* previous last-archived date, and is not later than the target end date, *)
(* assuming the fetch returns only rows inside the requested window.       *)

LiveWrites(c) == { k \in 1..Len(c.saves) : IsLive(c.saves[k].path) /\ ~c.saves[k].raised }

C29_LiveNameDate ==
    (last.called /\ last.outcome = "UPDATED" /\ InWindow(last)) =>
        \A k \in LiveWrites(last) :
            LET w == last.saves[k]
            IN /\ Exists(disk, w.path)
               /\ Fields(w.path.sfx) = MaxDate(disk[w.path])
               /\ w.path.sfx > LastUpdated(last.disk0, Cur(last))
               /\ w.path.sfx <= last.target

\* A rollover wrote a live partition for the new fiscal year and an update
\* within the year wrote one in the call before.
C29_Witness ==
    /\ last.outcome = "UPDATED" /\ InWindow(last) /\ LiveWrites(last) = {2}
    /\ prev.outcome = "UPDATED" /\ InWindow(prev) /\ LiveWrites(prev) = {1}

----------------------------------------------------------------------------
(* C30: when an instrument has several indexed partitions and none of them *)
(* carries a date (archived partitions only), get_latest_file returns the  *)
(* partition of the largest fiscal year, independent of the order in which *)
(* the scan or add_file inserted the paths.                                *)

ArchivedOnly(fm, code) ==
    /\ Len(Files(fm, code)) >= 2
    /\ \A p \in Indexed(fm, code) : IsArchived(p)

C30_LatestArchive ==
    (repo_op.name = "get_latest_file" /\ ArchivedOnly(repo_op.map0, repo_op.code)) =>
        /\ repo_op.result \in Indexed(repo_op.map0, repo_op.code)
        /\ \A p \in Indexed(repo_op.map0, repo_op.code) : p.fy <= repo_op.result.fy

====
